---- MODULE Spec2Model ----
(***************************************************************************)
(* Cronbach's Alpha and the greedy item elimination of src/app.py:         *)
(* calculate_cronbach_alpha (lines 8-25) and optimize_scale (lines 27-80). *)
(*                                                                         *)
(* A float is modelled as an exact fraction or NaN.  The data are small    *)
(* integers, so the sums are exact and the test of the total-score         *)
(* variance against 0 (line 21) is decided as the fractions decide it.     *)
(***************************************************************************)
EXTENDS Integers, Sequences, FiniteSets, TLC

VARIABLES df, target, pc, lists, history, best_alpha, max_alpha_scenario,
          target_reached_scenario, step, item_scores, calls

vars == <<df, target, pc, lists, history, best_alpha, max_alpha_scenario,
          target_reached_scenario, step, item_scores, calls>>

(***************************************************************************)
(* Bounds of the model.                                                    *)
(***************************************************************************)
MaxCols == 4

\* Column names, in the order of df.columns.
AllNames == <<"q1", "q2", "q3", "q4", "q5", "q6">>

\* A cell is <<v>> (a number) or <<>> (a missing value, NaN in the frame).
NA == <<>>

IsNA(cell) == cell = NA

\* The columns a matrix is drawn from: three respondents, answers 0 or 1,
\* at most one answer missing per column.
ColumnPatterns ==
    { <<<<0>>, <<1>>, <<0>>>>, <<<<1>>, <<0>>, <<0>>>>, <<<<0>>, <<1>>, <<1>>>>,
      <<<<1>>, <<1>>, <<1>>>>, <<NA, <<0>>, <<1>>>>, <<<<1>>, NA, <<0>>>> }

(***************************************************************************)
(* Floats: an exact fraction num/den (den > 0, lowest terms) or NaN.       *)
(***************************************************************************)
RECURSIVE Gcd(_, _)
Gcd(a, b) == IF b = 0 THEN a ELSE Gcd(b, a % b)

Abs(a) == IF a < 0 THEN -a ELSE a

NaN == [nan |-> TRUE, num |-> 0, den |-> 1]

\* The fraction n/d for d # 0; 0/0 and x/0 do not arise in the code (guards
\* at lines 15 and 21, and var(ddof=1) yields NaN rather than dividing by 0).
Frac(n, d) ==
    IF d = 0 THEN NaN
    ELSE LET g == Gcd(Abs(n), Abs(d))
             s == IF d < 0 THEN -1 ELSE 1
         IN [nan |-> FALSE, num |-> (s * n) \div g, den |-> (s * d) \div g]

Zero == Frac(0, 1)
One == Frac(1, 1)

FAdd(a, b) == IF a.nan \/ b.nan THEN NaN
              ELSE Frac(a.num * b.den + b.num * a.den, a.den * b.den)
FSub(a, b) == IF a.nan \/ b.nan THEN NaN
              ELSE Frac(a.num * b.den - b.num * a.den, a.den * b.den)
FMul(a, b) == IF a.nan \/ b.nan THEN NaN
              ELSE Frac(a.num * b.num, a.den * b.den)
FDiv(a, b) == IF a.nan \/ b.nan THEN NaN
              ELSE Frac(a.num * b.den, a.den * b.num)

\* IEEE comparisons: every comparison with NaN is false.
FEq(a, b) == ~a.nan /\ ~b.nan /\ a.num * b.den = b.num * a.den
FGt(a, b) == ~a.nan /\ ~b.nan /\ a.num * b.den > b.num * a.den
FGe(a, b) == ~a.nan /\ ~b.nan /\ a.num * b.den >= b.num * a.den

(***************************************************************************)
(* Frames: a frame is the column list and row index selected from df.      *)
(***************************************************************************)
Range(s) == {s[i] : i \in 1..Len(s)}

NumRows(d) == IF d.columns = <<>> THEN 0 ELSE Len(d.data[d.columns[1]])

\* df[cols]: the listed columns, every row of df.
Select(d, cols) ==
    [columns |-> cols, index |-> [i \in 1..NumRows(d) |-> i], data |-> d.data]

DropNaAllColumns(frame) ==
    [frame EXCEPT !.index =
        SelectSeq(frame.index,
                  LAMBDA r : \A c \in DOMAIN frame.data : ~IsNA(frame.data[c][r]))]

\* frame.dropna(): the rows with no missing value in the frame's columns.
DropNa(frame) ==
    [frame EXCEPT !.index =
        SelectSeq(frame.index,
                  LAMBDA r : \A c \in Range(frame.columns) : ~IsNA(frame.data[c][r]))]

RECURSIVE SumInts(_)
SumInts(xs) == IF xs = <<>> THEN 0 ELSE Head(xs) + SumInts(Tail(xs))

RECURSIVE SumFloats(_)
SumFloats(xs) == IF xs = <<>> THEN Zero ELSE FAdd(Head(xs), SumFloats(Tail(xs)))

\* Series.sum(): missing values are skipped (skipna), an empty sum is 0.0.
SumSkipNa(xs) == SumFloats(SelectSeq(xs, LAMBDA x : ~x.nan))

\* Series.var(ddof=1): the sum of squared deviations from the mean,
\* sum(x^2) - sum(x)^2 / n, over n - 1; NaN when fewer than two values are left.
Var(xs) ==
    LET n == Len(xs)
        s1 == SumInts(xs)
        s2 == SumInts([i \in 1..n |-> xs[i] * xs[i]])
    IN IF n < 2 THEN NaN ELSE Frac(n * s2 - s1 * s1, n * (n - 1))

\* The values of column c over the frame's rows.
ColumnValues(frame, c) ==
    [i \in 1..Len(frame.index) |-> frame.data[c][frame.index[i]][1]]

\* frame.sum(axis=1): the total score of each row.
RowSums(frame) ==
    [i \in 1..Len(frame.index) |->
        SumInts([j \in 1..Len(frame.columns) |->
                    frame.data[frame.columns[j]][frame.index[i]][1]])]

\* One invocation of calculate_cronbach_alpha: the columns passed, the rows of
\* df_clean and the value returned.
Invoke(frame) ==
    LET df_clean == DropNa(frame)
        item_count == Len(df_clean.columns)
        item_variances ==
            [j \in 1..item_count |->
                Var(ColumnValues(df_clean, df_clean.columns[j]))]
        total_score_variance == Var(RowSums(df_clean))
    IN [cols |-> frame.columns,
        rows |-> Range(df_clean.index),
        alpha |->
            IF item_count < 2 THEN Zero
            ELSE IF FEq(total_score_variance, Zero) THEN Zero
            ELSE FMul(Frac(item_count, item_count - 1),
                      FSub(One, FDiv(SumSkipNa(item_variances),
                                     total_score_variance)))]

calculate_cronbach_alpha(frame) == Invoke(frame).alpha

(***************************************************************************)
(* optimize_scale.  A Python list is an object: lists[r] is the content of *)
(* the list with reference r, and a Scenario holds the reference of its    *)
(* remaining_items list.                                                   *)
(***************************************************************************)
\* The reference of the list bound to current_cols.
current_cols == 1

None == "None"

\* The value of target_reached_scenario before a Scenario is bound to it.
NoScenario ==
    [step |-> -1, removed_item |-> None, alpha |-> NaN, remaining_items |-> 0]

Targets == {Zero, Frac(7, 10)}

\* l.copy(): the reference of a new list object.
ListAlias(ls, r) == r

ListCopy(ls, r) == Len(ls) + 1

\* The heap after binding reference new to a list with the content of r.
Store(ls, r, new) ==
    [i \in 1..(IF new > Len(ls) THEN new ELSE Len(ls)) |->
        IF i = new THEN ls[r] ELSE ls[i]]

\* [c for c in cols if c != col]
Without(cols, col) == SelectSeq(cols, LAMBDA c : c # col)

Reverse(s) == [i \in 1..Len(s) |-> s[Len(s) + 1 - i]]

ListRemoveUnordered(cols, item) == Reverse(Without(cols, item))

\* cols.remove(item): the first occurrence is deleted, the rest keeps its order.
ListRemove(cols, item) ==
    LET i == CHOOSE j \in 1..Len(cols) :
                 cols[j] = item /\ \A m \in 1..(j - 1) : cols[m] # item
    IN SubSeq(cols, 1, i - 1) \o SubSeq(cols, i + 1, Len(cols))

\* max(item_scores, key=item_scores.get): the keys are visited in insertion
\* order and a key replaces the best so far only if its score is greater.
RECURSIVE MaxFrom(_, _, _, _)
MaxFrom(keys, scores, i, best) ==
    IF i > Len(keys) THEN best
    ELSE MaxFrom(keys, scores, i + 1,
                 IF FGt(scores[keys[i]], scores[best]) THEN keys[i] ELSE best)

PyMax(keys, scores) == MaxFrom(keys, scores, 2, keys[1])

LoopCondOne(cols) == Len(cols) > 1

\* while len(current_cols) > 2
LoopCond(cols) == Len(cols) > 2

InitialTargetStrict(alpha, tgt, scenario) ==
    IF FGt(alpha, tgt) THEN scenario ELSE NoScenario

\* if initial_alpha >= target: target_reached_scenario = history[0]
InitialTarget(alpha, tgt, scenario) ==
    IF FGe(alpha, tgt) THEN scenario ELSE NoScenario

TargetUpdateLatest(reached, alpha, tgt, scenario) ==
    IF FGe(alpha, tgt) THEN scenario ELSE reached

\* if target_reached_scenario is None and new_alpha >= target
TargetUpdate(reached, alpha, tgt, scenario) ==
    IF reached = NoScenario /\ FGe(alpha, tgt) THEN scenario ELSE reached

Init ==
    /\ \E k \in 0..MaxCols :
         \E data \in [Range(SubSeq(AllNames, 1, k)) -> ColumnPatterns] :
            df = [columns |-> SubSeq(AllNames, 1, k), data |-> data]
    /\ target \in Targets
    /\ pc = "start"
    /\ lists = <<>>
    /\ history = <<>>
    /\ best_alpha = Zero
    /\ max_alpha_scenario = NoScenario
    /\ target_reached_scenario = NoScenario
    /\ step = 0
    /\ item_scores = <<>>
    /\ calls = {}

\* The guards of the three steps; the rest of each step is assignments.
StartGuard == pc = "start"

EliminateGuard == pc = "loop" /\ LoopCond(lists[current_cols])

ReturnGuard == pc = "loop" /\ ~LoopCond(lists[current_cols])

\* Lines 31-49: the step-0 Scenario and the two checkpoints.
Start ==
    /\ StartGuard
    /\ LET cols == df.columns
           ls0 == <<cols>>
           frame == Select(df, ls0[current_cols])
           call == Invoke(frame)
           initial_alpha == call.alpha
           ref == ListCopy(ls0, current_cols)
           scenario == [step |-> 0, removed_item |-> None,
                        alpha |-> initial_alpha, remaining_items |-> ref]
       IN /\ lists' = Store(ls0, current_cols, ref)
          /\ history' = <<scenario>>
          /\ best_alpha' = initial_alpha
          /\ max_alpha_scenario' = scenario
          /\ target_reached_scenario' = InitialTarget(initial_alpha, target, scenario)
          /\ calls' = {call}
    /\ step' = 1
    /\ pc' = "loop"
    /\ UNCHANGED <<df, target, item_scores>>

\* Lines 50-78: one iteration of the elimination loop.
Eliminate ==
    /\ EliminateGuard
    /\ LET cur == lists[current_cols]
           invoked == [col \in Range(cur) |-> Invoke(Select(df, Without(cur, col)))]
           scores == [col \in Range(cur) |-> invoked[col].alpha]
           best_item_to_remove == PyMax(cur, scores)
           new_alpha == scores[best_item_to_remove]
           ls1 == [lists EXCEPT ![current_cols] = ListRemove(cur, best_item_to_remove)]
           ref == ListCopy(ls1, current_cols)
           scenario == [step |-> step, removed_item |-> best_item_to_remove,
                        alpha |-> new_alpha, remaining_items |-> ref]
       IN /\ item_scores' = scores
          /\ calls' = calls \cup {invoked[col] : col \in Range(cur)}
          /\ lists' = Store(ls1, current_cols, ref)
          /\ history' = Append(history, scenario)
          /\ IF FGt(new_alpha, best_alpha)
                THEN best_alpha' = new_alpha /\ max_alpha_scenario' = scenario
                ELSE UNCHANGED <<best_alpha, max_alpha_scenario>>
          /\ target_reached_scenario' =
                TargetUpdate(target_reached_scenario, new_alpha, target, scenario)
    /\ step' = step + 1
    /\ UNCHANGED <<df, target, pc>>

\* Line 80: the loop condition fails and the three results are returned.
Return ==
    /\ ReturnGuard
    /\ pc' = "done"
    /\ UNCHANGED <<df, target, lists, history, best_alpha, max_alpha_scenario,
                   target_reached_scenario, step, item_scores, calls>>

Next == Start \/ Eliminate \/ Return

Spec == Init /\ [][Next]_vars

(***************************************************************************)
(* Properties.                                                             *)
(***************************************************************************)
NumCols == Len(df.columns)

\* The remaining_items list of a Scenario, read through its reference.
Remaining(s) == lists[s.remaining_items]

\* A Scenario with its remaining_items list read through the heap ls.
Deref(s, ls) == [s EXCEPT !.remaining_items = ls[s.remaining_items]]

Steps == 1..Len(history)

\* The position of column c in the original column order.
Pos(c) == CHOOSE i \in 1..NumCols : df.columns[i] = c

\* The rows of df with a value in every column of cols.
CompleteRows(cols) ==
    {r \in 1..NumRows(df) : \A c \in Range(cols) : ~IsNA(df.data[c][r])}

\* The total score of row r over the columns cols.
Total(cols, r) == SumInts([j \in 1..Len(cols) |-> df.data[cols[j]][r][1]])

\* C1: on return, for a matrix of at least 2 columns, max_scenario is an entry
\* of History, its alpha is at least every alpha of History that is a number,
\* and it has the lowest step among the entries with its alpha.
C1_MaxScenario ==
    (pc = "done" /\ NumCols >= 2) =>
        /\ \E i \in Steps : history[i] = max_alpha_scenario
        /\ \A j \in Steps : ~history[j].alpha.nan
                               => FGe(max_alpha_scenario.alpha, history[j].alpha)
        /\ \A j \in Steps : history[j].alpha = max_alpha_scenario.alpha
                               => history[j].step >= max_alpha_scenario.step

\* C2: once step 0 is recorded, target_scenario is absent exactly when no
\* History entry has alpha >= target, and otherwise is the History entry of
\* lowest step with alpha >= target; holding in every state of the run, a later
\* step never replaces it.
C2_TargetScenario ==
    (pc # "start") =>
        IF target_reached_scenario = NoScenario
        THEN \A j \in Steps : ~FGe(history[j].alpha, target)
        ELSE /\ \E i \in Steps : history[i] = target_reached_scenario
             /\ FGe(target_reached_scenario.alpha, target)
             /\ \A j \in Steps : FGe(history[j].alpha, target)
                                    => history[j].step >= target_reached_scenario.step

\* A run with two crossings of the target: the first is kept.
C2_Witness ==
    /\ pc = "done"
    /\ Len(history) >= 3
    /\ target_reached_scenario = history[2]
    /\ FGe(history[3].alpha, target)
    /\ ~FGe(history[1].alpha, target)

\* C3: the run terminates (until it has returned the guard of a step holds,
\* and the steps taken, one per History entry plus the return, are bounded by
\* the column count); for a matrix of k >= 2 columns it never has fewer than 2
\* remaining items and returns with exactly 2 remaining items and k - 1 History
\* entries, for k = 2 the step-0 entry alone.
C3_Termination ==
    /\ pc # "done" => (StartGuard \/ EliminateGuard \/ ReturnGuard)
    /\ Len(history) = step
    /\ step <= (IF NumCols >= 2 THEN NumCols - 1 ELSE 1)
    /\ (NumCols >= 2 /\ pc # "start") =>
            /\ Len(lists[current_cols]) >= 2
            /\ Len(lists[current_cols]) = NumCols + 1 - step
            /\ (pc = "done" =>
                  /\ Len(lists[current_cols]) = 2
                  /\ Len(history) = NumCols - 1
                  /\ (NumCols = 2 => Len(history) = 1 /\ history[1].step = 0))

C3_Witness == pc = "done" /\ NumCols = MaxCols /\ Len(history) = MaxCols - 1

\* C4 as stated, on the runs whose step-0 alpha is a number: with target 0.0
\* the returned target_scenario is History[0] whatever the data.
C4_Original ==
    (pc = "done" /\ target = Zero /\ ~history[1].alpha.nan)
        => target_reached_scenario = history[1]

\* C4 amended: with target 0.0, target_scenario is History[0] exactly when the
\* step-0 alpha is >= 0.0.
C4_TargetZero ==
    (pc # "start" /\ target = Zero) =>
        (FGe(history[1].alpha, Zero) <=> target_reached_scenario = history[1])

C4_Witness ==
    /\ pc = "done"
    /\ target = Zero
    /\ Len(history) >= 2
    /\ target_reached_scenario = history[1]

\* C5: a matrix of fewer than 2 columns is rejected before any work: no
\* Scenario is recorded and the call does not return a result.
C5_ExplicitError ==
    (NumCols < 2) => (history = <<>> /\ pc \in {"start", "error"})

\* C6: entry i of History has step i; entry 0 has no removed item and the full
\* column list; every later entry has one item fewer than the entry before it,
\* namely that entry's list without its own removed_item, in the original
\* relative order.
C6_HistoryShape ==
    \A i \in Steps :
        /\ history[i].step = i - 1
        /\ i = 1 => /\ history[i].removed_item = None
                    /\ Remaining(history[i]) = df.columns
        /\ i > 1 =>
              LET prev == Remaining(history[i - 1])
                  rem == Remaining(history[i])
              IN /\ Len(rem) = Len(prev) - 1
                 /\ history[i].removed_item \in Range(prev)
                 /\ rem = Without(prev, history[i].removed_item)
                 /\ \A a, b \in 1..Len(rem) : a < b => Pos(rem[a]) < Pos(rem[b])

C6_Witness ==
    /\ pc = "done"
    /\ Len(history) = 3
    /\ history[2].removed_item = df.columns[2]

\* C7: after an elimination step the alpha of the new Scenario is the
\* hypothetical-removal alpha of the removed item, computed for the remaining
\* set without it; it is at least the hypothetical-removal alpha (where that is
\* a number) of every item that was remaining, and greater than that of every
\* item before the removed one in the remaining-items order.
C7_GreedyChoice ==
    (Len(history) >= 2) =>
        LET last == history[Len(history)]
            prev == Remaining(history[Len(history) - 1])
        IN /\ last.alpha = item_scores[last.removed_item]
           /\ \E call \in calls :
                 call.cols = Remaining(last) /\ call.alpha = last.alpha
           /\ \A c \in Range(prev) :
                 ~item_scores[c].nan =>
                    /\ FGe(last.alpha, item_scores[c])
                    /\ Pos(c) < Pos(last.removed_item) => FGt(last.alpha, item_scores[c])

\* C8: every value calculate_cronbach_alpha returns is a number, and it is 0.0
\* when fewer than 2 columns were passed or the total scores of the complete
\* rows have zero variance.
C8_ZeroSentinel ==
    \A call \in calls :
        /\ ~call.alpha.nan
        /\ (\/ Len(call.cols) < 2
            \/ /\ Cardinality(call.rows) >= 2
               /\ \A r1, r2 \in call.rows : Total(call.cols, r1) = Total(call.cols, r2))
              => call.alpha = Zero

\* C9: a step changes no field of a Scenario already in History, nor of the
\* Scenarios bound to max_scenario and target_scenario, the content of their
\* remaining_items lists included.
C9_ScenariosFrozen ==
    [][/\ \A i \in Steps :
             /\ Len(history') >= i
             /\ Deref(history'[i], lists') = Deref(history[i], lists)
       /\ \A s \in {max_alpha_scenario, target_reached_scenario} \ {NoScenario} :
             Deref(s, lists') = Deref(s, lists)]_vars

\* Two removals after step 0 was recorded: its list is still the full one.
C9_Witness ==
    /\ pc = "done"
    /\ Len(history) >= 3
    /\ Remaining(history[1]) = df.columns
    /\ max_alpha_scenario = history[1]
    /\ Len(lists[current_cols]) = 2

\* C10: every alpha computation uses exactly the rows of df that have a value
\* in every column passed to it.
C10_CompleteRows ==
    /\ \A call \in calls : call.rows = CompleteRows(call.cols)
    /\ \A i \in Steps :
          \E call \in calls :
              call.cols = Remaining(history[i]) /\ call.alpha = history[i].alpha

\* A computation that keeps a row whose only missing value is in a column
\* outside the subset, and drops a row with a missing value inside it.
C10_Witness ==
    \E call \in calls :
        /\ \E r \in call.rows :
              \E c \in Range(df.columns) \ Range(call.cols) : IsNA(df.data[c][r])
        /\ \E r \in (1..NumRows(df)) \ call.rows :
              \E c \in Range(call.cols) : IsNA(df.data[c][r])

====
